---------------------------- MODULE Spec2Model ----------------------------
(***************************************************************************)
(* Model of build_kmls.py: the batch job that reads the KML files of       *)
(* data/distritos/, extracts their polygons, resolves a display name and   *)
(* a slug, and writes one styled KML document per file into web/kml/.      *)
(*                                                                         *)
(* Strings are sequences of one-character strings, so that stripping,      *)
(* splitting, substitution and number parsing are computed character by    *)
(* character as the code computes them.  An optional value (Python's None  *)
(* or a value) is the empty sequence or a one-element sequence.            *)
(***************************************************************************)
EXTENDS Integers, Sequences, FiniteSets, TLC

VARIABLES
    pc,        \* position of the running function (main, or the function under test)
    args,      \* arguments of the function under test
    ret,       \* what the function under test returned
    dirState,  \* IN_DIR on disk: "missing", "file" (exists, not a directory) or "dir"
    entries,   \* the files under IN_DIR, in the order glob enumerates them
    found,     \* main: found
    idx,       \* main: number of files of found the loop has handled
    ok,        \* main: ok
    calls,     \* the arguments normalize_kml_file has been called with, in order
    outcome,   \* what normalize_kml_file returned, per call
    disk,      \* OUT_DIR: file name -> document saved under it
    printed    \* the lines main printed to standard output

vars == <<pc, args, ret, dirState, entries, found, idx, ok, calls, outcome, disk, printed>>

mainVars == <<dirState, entries, found, idx, ok, calls, outcome, disk, printed>>

-----------------------------------------------------------------------------
(* Bounds of the model *)

MaxNameLen == 4      \* characters of a display name given to slugify
MaxTokens == 3       \* tokens of a coordinate text
MaxPolygons == 2     \* Polygon elements of a document
MaxRings == 3        \* boundary elements of a document, over all its polygons
MaxPlacemarks == 2   \* Placemark elements of a document
MaxFiles == 3        \* files under IN_DIR

-----------------------------------------------------------------------------
(* Optional values and characters *)

None == <<>>
Some(x) == <<x>>

Range(s) == {s[i] : i \in DOMAIN s}

LowerSeq == <<"a","b","c","d","e","f","g","h","i","j","k","l","m",
              "n","o","p","q","r","s","t","u","v","w","x","y","z">>
UpperSeq == <<"A","B","C","D","E","F","G","H","I","J","K","L","M",
              "N","O","P","Q","R","S","T","U","V","W","X","Y","Z">>
DigitSeq == <<"0","1","2","3","4","5","6","7","8","9">>

\* What str.strip(), str.split() and the pattern \s take for white space.
Whitespace == {" ", "\t", "\n"}

\* The pattern class [a-zA-Z0-9_].
WordChars == Range(LowerSeq) \cup Range(UpperSeq) \cup Range(DigitSeq) \cup {"_"}

\* str.lower() of one character.
LowerChar(c) ==
    IF c \in Range(UpperSeq)
    THEN LowerSeq[CHOOSE i \in DOMAIN UpperSeq : UpperSeq[i] = c]
    ELSE IF c = "Á" THEN "á" ELSE c

RECURSIVE LStrip(_, _)
LStrip(s, cls) ==
    IF s = <<>> \/ Head(s) \notin cls THEN s ELSE LStrip(Tail(s), cls)

RECURSIVE RStrip(_, _)
RStrip(s, cls) ==
    IF s = <<>> \/ s[Len(s)] \notin cls THEN s
    ELSE RStrip(SubSeq(s, 1, Len(s) - 1), cls)

\* str.strip(): cls is the white space, or the characters given.
Strip(s, cls) == RStrip(LStrip(s, cls), cls)

\* re.sub(r"[cls]+", rep, s): every maximal run of characters of cls becomes rep.
RECURSIVE ReSubRuns(_, _, _)
ReSubRuns(s, cls, rep) ==
    IF s = <<>> THEN <<>>
    ELSE IF Head(s) \in cls
         THEN rep \o ReSubRuns(LStrip(Tail(s), cls), cls, rep)
         ELSE <<Head(s)>> \o ReSubRuns(Tail(s), cls, rep)

Lower(s) == [i \in DOMAIN s |-> LowerChar(s[i])]

-----------------------------------------------------------------------------
(* slugify *)

distrito == <<"d","i","s","t","r","i","t","o">>

\* slugify without the lowering of line 25.
slugify_keepCase(value) ==
    LET v1 == Strip(value, Whitespace)
        v2 == ReSubRuns(v1, Whitespace, <<"_">>)
        v3 == ReSubRuns(v2, {c \in Range(v2) : c \notin WordChars}, <<"_">>)
        v4 == Strip(ReSubRuns(v3, {"_"}, <<"_">>), {"_"})
    IN  IF v4 = <<>> THEN distrito ELSE v4

\* slugify: strip, white space runs to "_", runs outside [a-zA-Z0-9_] to "_",
\* runs of "_" to one "_", strip "_", lower, and "distrito" for an empty result.
slugify(value) ==
    LET v1 == Strip(value, Whitespace)
        v2 == ReSubRuns(v1, Whitespace, <<"_">>)
        v3 == ReSubRuns(v2, {c \in Range(v2) : c \notin WordChars}, <<"_">>)
        v4 == Strip(ReSubRuns(v3, {"_"}, <<"_">>), {"_"})
        v5 == Lower(v4)
    IN  IF v5 = <<>> THEN distrito ELSE v5

-----------------------------------------------------------------------------
(* Specification SpecSlug: slugify applied to a display name, then to its   *)
(* own result.                                                              *)

NameChars == {"a", "B", "7", "_", " ", "\t", "-", "Á"}

RECURSIVE StringsUpTo(_, _)
StringsUpTo(chars, n) ==
    IF n = 0 THEN {<<>>}
    ELSE LET shorter == StringsUpTo(chars, n - 1)
         IN  shorter \cup {Append(s, c) : s \in {t \in shorter : Len(t) = n - 1}, c \in chars}

MainIdle ==
    /\ dirState = "missing" /\ entries = <<>> /\ found = <<>> /\ idx = 0 /\ ok = 0
    /\ calls = <<>> /\ outcome = <<>> /\ disk = <<>> /\ printed = <<>>

InitSlug ==
    /\ pc = "slugify"
    /\ args \in StringsUpTo(NameChars, MaxNameLen)
    /\ ret = <<>>
    /\ MainIdle

CallSlugify ==
    /\ pc = "slugify"
    /\ Len(ret) < 2
    /\ ret' = Append(ret, slugify(IF ret = <<>> THEN args ELSE ret[Len(ret)]))
    /\ UNCHANGED <<pc, args>>
    /\ UNCHANGED mainVars

SpecSlug == InitSlug /\ [][CallSlugify]_vars

SlugChars == Range(LowerSeq) \cup Range(DigitSeq) \cup {"_"}

\* The cleaned text of a name is empty: it holds no letter and no digit.
NothingToKeep(s) == \A i \in DOMAIN s : s[i] \notin (WordChars \ {"_"})

\* C1: for every display name, slugify's result is non-empty and made of the
\* characters a-z, 0-9 and _ only; slugify of the result is the result; and a
\* name with nothing to keep (empty, all white space, all punctuation) gives
\* exactly "distrito".
C1_SlugifyContract ==
    pc = "slugify" =>
        /\ \A k \in DOMAIN ret : ret[k] # <<>> /\ Range(ret[k]) \subseteq SlugChars
        /\ Len(ret) = 2 => ret[2] = ret[1]
        /\ (Len(ret) >= 1 /\ NothingToKeep(args)) => ret[1] = distrito

C1_Witness ==
    /\ pc = "slugify" /\ Len(ret) = 2
    /\ args = <<" ", "B", "-", "Á">>
    /\ ret[1] = <<"b">>

-----------------------------------------------------------------------------
(* _parse_coordinates *)

\* str.replace(a, b) for one-character a and b.
Replace(s, a, b) == [i \in DOMAIN s |-> IF s[i] = a THEN b ELSE s[i]]

\* The first index of s at or after i whose character is in cls, or Len(s) + 1.
RECURSIVE IndexOf(_, _, _)
IndexOf(s, cls, i) ==
    IF i > Len(s) \/ s[i] \in cls THEN i ELSE IndexOf(s, cls, i + 1)

\* str.split(): the maximal runs of non-white-space characters, in order.
RECURSIVE SplitWhitespace(_)
SplitWhitespace(s) ==
    LET t == LStrip(s, Whitespace)
        e == IndexOf(t, Whitespace, 1)
    IN  IF t = <<>> THEN <<>>
        ELSE <<SubSeq(t, 1, e - 1)>> \o SplitWhitespace(SubSeq(t, e, Len(t)))

\* str.split(","): the fields between the commas, empty fields kept.
RECURSIVE SplitComma(_)
SplitComma(s) ==
    LET e == IndexOf(s, {","}, 1)
    IN  IF e > Len(s) THEN <<s>>
        ELSE <<SubSeq(s, 1, e - 1)>> \o SplitComma(SubSeq(s, e + 1, Len(s)))

DigitVal(c) == (CHOOSE i \in DOMAIN DigitSeq : DigitSeq[i] = c) - 1

RECURSIVE NatValue(_)
NatValue(s) ==
    IF s = <<>> THEN 0
    ELSE NatValue(SubSeq(s, 1, Len(s) - 1)) * 10 + DigitVal(s[Len(s)])

\* float(text): None for the ValueError, else the number.  The texts modelled
\* are an optional sign and decimal digits; anything else here is an error.
Float(text) ==
    LET signed == text # <<>> /\ Head(text) \in {"-", "+"}
        digits == IF signed THEN Tail(text) ELSE text
    IN  IF digits = <<>> \/ \E i \in DOMAIN digits : digits[i] \notin Range(DigitSeq)
        THEN None
        ELSE Some(IF signed /\ Head(text) = "-" THEN 0 - NatValue(digits) ELSE NatValue(digits))

\* The loop body of lines 32-38 that takes latitude from the wrong field.
TokenPoints_latFromLast(token) ==
    LET parts == SplitComma(token)
    IN  IF Len(parts) >= 2
        THEN LET lon == Float(parts[1])
                 lat == Float(parts[Len(parts)])
             IN  IF lon = None \/ lat = None THEN <<>> ELSE << <<lon[1], lat[1]>> >>
        ELSE <<>>

\* The loop body of lines 32-38: the points (none or one) a token appends.
TokenPoints(token) ==
    LET parts == SplitComma(token)
    IN  IF Len(parts) >= 2
        THEN LET lon == Float(parts[1])
                 lat == Float(parts[2])
             IN  IF lon = None \/ lat = None THEN <<>> ELSE << <<lon[1], lat[1]>> >>
        ELSE <<>>

RECURSIVE PointsOf(_)
PointsOf(tokens) ==
    IF tokens = <<>> THEN <<>> ELSE TokenPoints(Head(tokens)) \o PointsOf(Tail(tokens))

\* coord_text is None or Some(text).
_parse_coordinates(coord_text) ==
    IF coord_text = None \/ coord_text[1] = <<>> THEN <<>>
    ELSE PointsOf(SplitWhitespace(
            Replace(Replace(Strip(coord_text[1], Whitespace), "\n", " "), "\t", " ")))

-----------------------------------------------------------------------------
(* Specification SpecCoord: _parse_coordinates applied to a coordinate text *)
(* built from tokens, each a list of fields, and the white space after it.  *)

\* A field: its text, and the number it stands for (None: not a number).
Num(t, v) == [txt |-> t, val |-> Some(v)]
Bad(t) == [txt |-> t, val |-> None]

TokenPool ==
    { << Num(<<"1">>, 1), Num(<<"2">>, 2) >>,
      << Num(<<"3">>, 3), Num(<<"4">>, 4) >>,
      << Num(<<"-","1">>, 0 - 1), Num(<<"2","0">>, 20), Num(<<"5">>, 5) >>,
      << Num(<<"1">>, 1), Num(<<"2">>, 2), Bad(<<"x">>) >>,
      << Num(<<"7">>, 7) >>,
      << Bad(<<"x">>), Num(<<"1">>, 1) >>,
      << Num(<<"1">>, 1), Bad(<<"1","-">>) >>,
      << Bad(<<>>), Num(<<"1">>, 1) >>,
      << >> }

Separators == { <<" ">>, <<"\n", "\t">> }

RECURSIVE JoinFields(_)
JoinFields(fields) ==
    IF fields = <<>> THEN <<>>
    ELSE IF Len(fields) = 1 THEN fields[1].txt
    ELSE fields[1].txt \o <<",">> \o JoinFields(Tail(fields))

RECURSIVE JoinParts(_)
JoinParts(parts) ==
    IF parts = <<>> THEN <<>>
    ELSE JoinFields(parts[1].fields) \o parts[1].sep \o JoinParts(Tail(parts))

RECURSIVE SeqsUpTo(_, _)
SeqsUpTo(S, n) ==
    IF n = 0 THEN {<<>>}
    ELSE LET shorter == SeqsUpTo(S, n - 1)
         IN  shorter \cup {Append(s, x) : s \in {t \in shorter : Len(t) = n - 1}, x \in S}

\* A token is valid when it has two fields or more and the first two are numbers.
ValidToken(fields) ==
    Len(fields) >= 2 /\ fields[1].val # None /\ fields[2].val # None

InitCoord ==
    /\ pc = "_parse_coordinates"
    /\ \E parts \in SeqsUpTo([fields : TokenPool, sep : Separators], MaxTokens) :
         \E text \in {Some(JoinParts(parts))} \cup (IF parts = <<>> THEN {None} ELSE {}) :
            args = [parts |-> parts, coord_text |-> text]
    /\ ret = [pts |-> None, siblings |-> None]
    /\ MainIdle

\* The call on the coordinate text.
CallParseCoordinates ==
    /\ pc = "_parse_coordinates"
    /\ ret.pts = None
    /\ ret' = [ret EXCEPT !.pts = Some(_parse_coordinates(args.coord_text))]
    /\ UNCHANGED <<pc, args>>
    /\ UNCHANGED mainVars

\* The call on the same text with the invalid tokens taken out.
CallParseSiblings ==
    /\ pc = "_parse_coordinates"
    /\ ret.pts # None /\ ret.siblings = None
    /\ LET kept == SelectSeq(args.parts, LAMBDA p : ValidToken(p.fields))
       IN  ret' = [ret EXCEPT !.siblings = Some(_parse_coordinates(Some(JoinParts(kept))))]
    /\ UNCHANGED <<pc, args>>
    /\ UNCHANGED mainVars

NextCoord == CallParseCoordinates \/ CallParseSiblings

SpecCoord == InitCoord /\ [][NextCoord]_vars

RECURSIVE ExpectedPoints(_)
ExpectedPoints(parts) ==
    IF parts = <<>> THEN <<>>
    ELSE LET f == parts[1].fields
         IN  (IF ValidToken(f) THEN << <<f[1].val[1], f[2].val[1]>> >> ELSE <<>>)
             \o ExpectedPoints(Tail(parts))

\* C6: _parse_coordinates returns exactly the points (lon, lat) of the tokens
\* that have at least two fields whose first two are numbers, in token order
\* (further fields are ignored); every other token is dropped, and the text
\* without the dropped tokens gives the same points in the same order.
C6_ParseCoordinates ==
    pc = "_parse_coordinates" =>
        /\ ret.pts # None => ret.pts[1] = ExpectedPoints(args.parts)
        /\ ret.siblings # None => ret.siblings[1] = ret.pts[1]

C6_Witness ==
    /\ pc = "_parse_coordinates"
    /\ Len(args.parts) = 3
    /\ ~ValidToken(args.parts[2].fields) /\ args.parts[2].fields # <<>>
    /\ Len(args.parts[1].fields) = 3
    /\ ret.siblings # None
    /\ ret.pts = Some(<< <<0 - 1, 20>>, <<3, 4>> >>)

-----------------------------------------------------------------------------
(* ElementTree: an element is [tag, text, children]; tag is the local name  *)
(* (every path of the code matches any namespace, "{*}"), text is None or   *)
(* Some(text).                                                              *)

Element(tag, text, children) == [tag |-> tag, text |-> text, children |-> children]

coordinates(text) == Element("coordinates", text, <<>>)

RECURSIVE Iter(_), IterAll(_)
\* Element.iter(): the element and its descendants, in document order.
Iter(e) == <<e>> \o IterAll(e.children)
IterAll(es) == IF es = <<>> THEN <<>> ELSE Iter(Head(es)) \o IterAll(Tail(es))

WithTag(es, tag) == SelectSeq(es, LAMBDA e : e.tag = tag)

RECURSIVE ChildrenWithTag(_, _)
\* The path step "/tag": the children named tag of each element, in order.
ChildrenWithTag(es, tag) ==
    IF es = <<>> THEN <<>>
    ELSE WithTag(Head(es).children, tag) \o ChildrenWithTag(Tail(es), tag)

RECURSIVE Steps(_, _)
Steps(es, tags) ==
    IF tags = <<>> THEN es ELSE Steps(ChildrenWithTag(es, Head(tags)), Tail(tags))

\* element.findall(".//t1/t2/..."): the descendants named t1 (the element itself
\* is not one), then the child steps.
FindAll(element, tags) ==
    Steps(WithTag(Tail(Iter(element)), Head(tags)), Tail(tags))

\* element.find(path): the first match, or None.
Find(element, tags) ==
    LET all == FindAll(element, tags) IN IF all = <<>> THEN None ELSE Some(all[1])

\* (text or "").strip() is not empty.
NonBlank(text) == text # None /\ Strip(text[1], Whitespace) # <<>>

\* _findtext
_findtext(element, tags) ==
    LET el == Find(element, tags)
    IN  IF el # None /\ el[1].text # None /\ el[1].text[1] # <<>>
        THEN Some(Strip(el[1].text[1], Whitespace))
        ELSE None

-----------------------------------------------------------------------------
(* _collect_polygons_from_xml *)

OuterPath == <<"outerBoundaryIs", "LinearRing", "coordinates">>
InnerPath == <<"innerBoundaryIs", "LinearRing", "coordinates">>
RingPath == <<"LinearRing", "coordinates">>

RECURSIVE InnerRings(_)
\* Lines 56-58: the inner rings of the non-blank inner coordinate texts.
InnerRings(els) ==
    IF els = <<>> THEN <<>>
    ELSE (IF NonBlank(Head(els).text) THEN <<_parse_coordinates(Head(els).text)>> ELSE <<>>)
         \o InnerRings(Tail(els))

\* Lines 49-53 with the fallback taken only when the outer path is absent.
OuterCoordsEl_absentOnly(poly) ==
    LET nested == Find(poly, OuterPath)
    IN  IF nested = None THEN Find(poly, RingPath) ELSE nested

\* Lines 49-53: the element whose text gives the outer ring, or None.
OuterCoordsEl(poly) ==
    LET nested == Find(poly, OuterPath)
    IN  IF nested = None \/ ~NonBlank(nested[1].text) THEN Find(poly, RingPath) ELSE nested

\* Lines 54-60 without the test of line 59.
PolygonOf_keepEmpty(poly) ==
    LET outer_coords_el == OuterCoordsEl(poly)
    IN  IF outer_coords_el = None THEN <<>>
        ELSE << [outer |-> _parse_coordinates(outer_coords_el[1].text),
                 inners |-> InnerRings(FindAll(poly, InnerPath))] >>

\* Lines 49-60, the loop body: the polygons (none or one) a Polygon element appends.
PolygonOf(poly) ==
    LET outer_coords_el == OuterCoordsEl(poly)
    IN  IF outer_coords_el = None THEN <<>>
        ELSE LET outer == _parse_coordinates(outer_coords_el[1].text)
                 inners == InnerRings(FindAll(poly, InnerPath))
             IN  IF outer # <<>> THEN << [outer |-> outer, inners |-> inners] >> ELSE <<>>

RECURSIVE PolygonsOf(_)
PolygonsOf(polys) ==
    IF polys = <<>> THEN <<>> ELSE PolygonOf(Head(polys)) \o PolygonsOf(Tail(polys))

_collect_polygons_from_xml(root) == PolygonsOf(FindAll(root, <<"Polygon">>))

-----------------------------------------------------------------------------
(* Specification SpecXml: _collect_polygons_from_xml applied to a document  *)
(* built from polygon descriptions, each a list of boundary children.       *)

T12_34 == <<"1",",","2"," ","3",",","4">>
T56 == <<"5",",","6">>
T78 == <<"7",",","8","\n">>
T99 == <<"9",",","9">>

\* A boundary child of a Polygon: kind "outer" is outerBoundaryIs/LinearRing/
\* coordinates, "inner" the same under innerBoundaryIs, "bare" a LinearRing of
\* the Polygon itself, "outerEmpty" an outerBoundaryIs without a LinearRing.
Child(kind, text) == [kind |-> kind, text |-> text]

ChildPool ==
    { Child("outer", None), Child("outer", Some(<<" ">>)),
      Child("outer", Some(<<"x">>)), Child("outer", Some(T12_34)),
      Child("inner", Some(<<"\n">>)), Child("inner", Some(T56)), Child("inner", Some(T78)),
      Child("bare", Some(T99)),
      Child("outerEmpty", None) }

ChildElement(c) ==
    LET ring == Element("LinearRing", None, <<coordinates(c.text)>>)
    IN  CASE c.kind = "outer" -> Element("outerBoundaryIs", None, <<ring>>)
          [] c.kind = "inner" -> Element("innerBoundaryIs", None, <<ring>>)
          [] c.kind = "bare" -> ring
          [] c.kind = "outerEmpty" -> Element("outerBoundaryIs", None, <<>>)

PolygonElement(children) ==
    Element("Polygon", None, [i \in DOMAIN children |-> ChildElement(children[i])])

\* The first polygon in a Placemark of its own, the others in a MultiGeometry
\* of a Placemark inside a Document.
PolygonsRoot(polys) ==
    LET els == [i \in DOMAIN polys |-> PolygonElement(polys[i])]
    IN  Element("kml", None,
            IF els = <<>> THEN <<Element("Document", None, <<>>)>>
            ELSE << Element("Placemark", None, <<Head(els)>>),
                    Element("Document", None,
                        <<Element("Placemark", None,
                            <<Element("MultiGeometry", None, Tail(els))>>)>>) >>)

RECURSIVE Sum(_)
Sum(ns) == IF ns = <<>> THEN 0 ELSE Head(ns) + Sum(Tail(ns))

\* The numbers of children of at most MaxPolygons polygons, MaxRings in all.
Shapes == {ns \in SeqsUpTo(0..MaxRings, MaxPolygons) : Sum(ns) <= MaxRings}

RECURSIVE SplitBy(_, _)
\* The list flat cut into pieces of the lengths ns.
SplitBy(flat, ns) ==
    IF ns = <<>> THEN <<>>
    ELSE <<SubSeq(flat, 1, Head(ns))>>
         \o SplitBy(SubSeq(flat, Head(ns) + 1, Len(flat)), Tail(ns))

InitXml ==
    /\ pc = "_collect_polygons_from_xml"
    /\ \E ns \in Shapes : \E flat \in [1..Sum(ns) -> ChildPool] :
         LET polys == SplitBy(flat, ns)
         IN  args = [polys |-> polys, root |-> PolygonsRoot(polys)]
    /\ ret = None
    /\ MainIdle

CallCollectPolygons ==
    /\ pc = "_collect_polygons_from_xml"
    /\ ret = None
    /\ ret' = Some(_collect_polygons_from_xml(args.root))
    /\ UNCHANGED <<pc, args>>
    /\ UNCHANGED mainVars

SpecXml == InitXml /\ [][CallCollectPolygons]_vars

\* The first index of seq whose element satisfies P, or 0.
FirstIndex(seq, P(_)) ==
    IF \E i \in DOMAIN seq : P(seq[i])
    THEN CHOOSE i \in DOMAIN seq : P(seq[i]) /\ \A j \in 1..(i - 1) : ~P(seq[j])
    ELSE 0

HasRing(c) == c.kind \in {"outer", "inner", "bare"}
IsOuter(c) == c.kind = "outer"

\* The coordinate text a polygon description's outer ring is read from, by the
\* rule "the nested outer path when it is present, else the first ring":
\* None when the polygon has no ring at all, else Some(text).
OuterTextWhenPresent(children) ==
    LET o == FirstIndex(children, IsOuter)
        r == FirstIndex(children, HasRing)
    IN  IF o # 0 THEN Some(children[o].text)
        ELSE IF r # 0 THEN Some(children[r].text) ELSE None

\* The same by the rule "the nested outer path when it is present and its text
\* is not blank, else the first ring in document order".
OuterTextWhenNonBlank(children) ==
    LET o == FirstIndex(children, IsOuter)
        r == FirstIndex(children, HasRing)
    IN  IF o # 0 /\ NonBlank(children[o].text) THEN Some(children[o].text)
        ELSE IF r # 0 THEN Some(children[r].text) ELSE None

PointsOfChosen(chosen) == IF chosen = None THEN <<>> ELSE _parse_coordinates(chosen[1])

\* The rings of the non-blank texts of a description's inner boundaries.
InnersOf(children) ==
    LET inner == SelectSeq(children, LAMBDA c : c.kind = "inner" /\ NonBlank(c.text))
    IN  [i \in DOMAIN inner |-> _parse_coordinates(inner[i].text)]

RECURSIVE Flatten(_)
Flatten(ss) == IF ss = <<>> THEN <<>> ELSE Head(ss) \o Flatten(Tail(ss))

\* The polygons of a list of descriptions, Rule giving each one's outer text.
ExpectedPolygons(polys, Rule(_)) ==
    Flatten([i \in DOMAIN polys |->
        LET outer == PointsOfChosen(Rule(polys[i]))
        IN  IF outer = <<>> THEN <<>>
            ELSE << [outer |-> outer, inners |-> InnersOf(polys[i])] >>])

\* C7: every polygon _collect_polygons_from_xml returns has an outer ring of at
\* least one point; a Polygon element whose outer coordinate text (the text the
\* outer ring is read from) is missing, blank or without a valid point is not
\* returned; and the polygons returned are in the document order of their
\* elements.
C7_OuterNonEmpty ==
    (pc = "_collect_polygons_from_xml" /\ ret # None) =>
        LET kept == SelectSeq(args.polys,
                        LAMBDA d : PointsOfChosen(OuterTextWhenNonBlank(d)) # <<>>)
        IN  /\ \A k \in DOMAIN ret[1] : Len(ret[1][k].outer) >= 1
            /\ Len(ret[1]) = Len(kept)
            /\ \A k \in DOMAIN kept :
                 ret[1][k].outer = PointsOfChosen(OuterTextWhenNonBlank(kept[k]))

\* A document of two polygons, the first with an outer text without a valid
\* point: only the second is returned.
C7_Witness ==
    /\ pc = "_collect_polygons_from_xml" /\ ret # None
    /\ args.polys = << <<Child("outer", Some(<<"x">>)), Child("inner", Some(T56))>>,
                       <<Child("outer", Some(T12_34))>> >>
    /\ ret[1] = << [outer |-> << <<1, 2>>, <<3, 4>> >>, inners |-> <<>>] >>

\* C10 as stated: the outer ring is read from the nested outer path whenever
\* that path is present, the first ring elsewhere only when it is absent (so
\* never an inner boundary's ring while the outer path exists), and the inner
\* rings from the inner path only.
C10_FallbackOnlyWhenAbsent ==
    (pc = "_collect_polygons_from_xml" /\ ret # None) =>
        ret[1] = ExpectedPolygons(args.polys, OuterTextWhenPresent)

\* C10 as amended: the outer ring is read from the nested outer path when that
\* path is present and its text is not blank; otherwise (absent, or its text
\* missing or blank) from the first LinearRing/coordinates of the polygon in
\* document order, which may belong to an inner boundary; the inner rings are
\* those of the non-blank texts of the inner path only.
C10_FallbackWhenAbsentOrBlank ==
    (pc = "_collect_polygons_from_xml" /\ ret # None) =>
        ret[1] = ExpectedPolygons(args.polys, OuterTextWhenNonBlank)

\* An inner boundary before an outer boundary of blank text: the inner ring is
\* returned as the outer ring.
C10_Witness ==
    /\ pc = "_collect_polygons_from_xml" /\ ret # None
    /\ args.polys = << <<Child("inner", Some(T56)), Child("outer", Some(<<" ">>))>> >>
    /\ ret[1] = << [outer |-> << <<5, 6>> >>, inners |-> << << <<5, 6>> >> >>] >>

-----------------------------------------------------------------------------
(* _best_name_from_xml *)

\* Lines 65-69 with the document's name looked up before the placemarks'.
_best_name_documentFirst(root, fallback) ==
    LET dn == _findtext(root, <<"Document", "name">>)
        nm == _findtext(root, <<"Placemark", "name">>)
    IN  IF dn # None /\ dn[1] # <<>> THEN dn[1]
        ELSE IF nm # None /\ nm[1] # <<>> THEN nm[1]
        ELSE fallback

_best_name_from_xml(root, fallback) ==
    LET nm == _findtext(root, <<"Placemark", "name">>)
        dn == _findtext(root, <<"Document", "name">>)
    IN  IF nm # None /\ nm[1] # <<>> THEN nm[1]
        ELSE IF dn # None /\ dn[1] # <<>> THEN dn[1]
        ELSE fallback

-----------------------------------------------------------------------------
(* Specification SpecName: _best_name_from_xml applied to a document built  *)
(* from the name of its Document and the names of its Placemarks.  A name   *)
(* is None (no name element) or Some(text of the element).                  *)

NameP == <<" ", "P">>
NameQ == <<"Q">>
NameDoc == <<"D", "o", "c", "\n">>
Stem == <<"s", "t", "e", "m">>

PlacemarkNames == {None, Some(None), Some(Some(<<" ">>)), Some(Some(NameP)), Some(Some(NameQ))}
DocumentNames == {None, Some(None), Some(Some(<<"\t">>)), Some(Some(NameDoc))}

NameElements(name) == IF name = None THEN <<>> ELSE <<Element("name", name[1], <<>>)>>

\* Layout "document": kml/Document/(name, Placemark...); layout "bare": the
\* Placemarks are children of kml and there is no Document.
NamesRoot(layout, docName, pmNames) ==
    LET pms == [i \in DOMAIN pmNames |-> Element("Placemark", None, NameElements(pmNames[i]))]
    IN  Element("kml", None,
            IF layout = "document"
            THEN <<Element("Document", None, NameElements(docName) \o pms)>>
            ELSE pms)

InitName ==
    /\ pc = "_best_name_from_xml"
    /\ \E layout \in {"document", "bare"}, docName \in DocumentNames,
          pmNames \in SeqsUpTo(PlacemarkNames, MaxPlacemarks) :
         /\ layout = "bare" => docName = None
         /\ args = [layout |-> layout, docName |-> docName, pmNames |-> pmNames,
                    root |-> NamesRoot(layout, docName, pmNames), fallback |-> Stem]
    /\ ret = None
    /\ MainIdle

CallBestName ==
    /\ pc = "_best_name_from_xml"
    /\ ret = None
    /\ ret' = Some(_best_name_from_xml(args.root, args.fallback))
    /\ UNCHANGED <<pc, args>>
    /\ UNCHANGED mainVars

SpecName == InitName /\ [][CallBestName]_vars

\* The name a name element gives: its stripped text when that is not blank.
Usable(name) == name # None /\ NonBlank(name[1])
TextOf(name) == Strip(name[1][1], Whitespace)

\* C8 as stated: the first placemark's name when present and non-blank, else
\* the document's name when present and non-blank, else the fallback; a later
\* placemark's name is never used.
C8_FirstPlacemarkRule ==
    (pc = "_best_name_from_xml" /\ ret # None) =>
        ret[1] = IF args.pmNames # <<>> /\ Usable(args.pmNames[1])
                 THEN TextOf(args.pmNames[1])
                 ELSE IF Usable(args.docName) THEN TextOf(args.docName)
                 ELSE args.fallback

\* C8 as amended: the name is the stripped text of the first name element, in
\* document order, that is a child of a Placemark (that of a later placemark
\* when the earlier ones have no name element), when that text is not blank;
\* else the stripped text of the Document's name element when not blank; else
\* the fallback.
C8_FirstPlacemarkNameElement ==
    (pc = "_best_name_from_xml" /\ ret # None) =>
        LET first == FirstIndex(args.pmNames, LAMBDA n : n # None)
        IN  ret[1] = IF first # 0 /\ Usable(args.pmNames[first])
                     THEN TextOf(args.pmNames[first])
                     ELSE IF Usable(args.docName) THEN TextOf(args.docName)
                     ELSE args.fallback

\* The first placemark has no name element, the second is named "Q", and the
\* document is named too: the second placemark's name is returned.
C8_Witness ==
    /\ pc = "_best_name_from_xml"
    /\ args.layout = "document" /\ args.docName = Some(Some(NameDoc))
    /\ args.pmNames = <<None, Some(Some(NameQ))>>
    /\ ret = Some(NameQ)

-----------------------------------------------------------------------------
(* normalize_kml_file *)

\* Lines 88-91: the style every polygon is given.
style == [polystyle |-> [color |-> [alpha |-> 120, of |-> "red"], fill |-> 1, outline |-> 1]]

RECURSIVE Str(_)
\* str(i) of a natural number, as the f-string of line 104 formats it.
Str(i) == IF i < 10 THEN <<DigitSeq[i + 1]>> ELSE Str(i \div 10) \o <<DigitSeq[(i % 10) + 1]>>

\* Lines 93-97: the polygon parent.newpolygon(name=nm) makes, once filled in.
put_polygon(outer, inners, nm) ==
    [kind |-> "Polygon", name |-> nm, outerboundaryis |-> outer,
     innerboundaryis |-> IF inners # <<>> THEN inners ELSE <<>>, style |-> style]

\* Lines 102-104 with the sub-features numbered from 0.
newmultigeometry_fromZero(name, polygons) ==
    [kind |-> "MultiGeometry", name |-> name,
     geometries |-> [i \in DOMAIN polygons |->
        put_polygon(polygons[i].outer, polygons[i].inners, name \o <<" ", "#">> \o Str(i - 1))]]

\* Lines 102-104: the grouping feature and its numbered polygons.
newmultigeometry(name, polygons) ==
    [kind |-> "MultiGeometry", name |-> name,
     geometries |-> [i \in DOMAIN polygons |->
        put_polygon(polygons[i].outer, polygons[i].inners, name \o <<" ", "#">> \o Str(i))]]

\* Lines 87-104: the document built for a name and its polygons.
Kml(name, polygons) ==
    [features |->
        IF Len(polygons) = 1
        THEN <<put_polygon(polygons[1].outer, polygons[1].inners, name)>>
        ELSE <<newmultigeometry(name, polygons)>>]

\* ET.parse(src_path).getroot(): None for the exception of line 75.
ParseFile(src_path) == IF src_path.wellFormed THEN Some(src_path.root) ELSE None

\* Lines 84-85 with a slug that keeps its leading and trailing underscores.
SlugOf_noUnderscoreStrip(name) ==
    LET v1 == Strip(name, Whitespace)
        v2 == ReSubRuns(v1, Whitespace, <<"_">>)
        v3 == ReSubRuns(v2, {c \in Range(v2) : c \notin WordChars}, <<"_">>)
        v5 == Lower(ReSubRuns(v3, {"_"}, <<"_">>))
    IN  IF v5 = <<>> THEN distrito ELSE v5

\* Line 85.
SlugOf(name) == slugify(name)

\* normalize_kml_file: what it returns (None or the path written, a file name
\* of OUT_DIR) and the document it saves there (None when it returns early).
normalize_kml_file(src_path) ==
    LET root == ParseFile(src_path)
    IN  IF root = None THEN [out_path |-> None, kdoc |-> None]
        ELSE LET polygons == _collect_polygons_from_xml(root[1])
             IN  IF polygons = <<>> THEN [out_path |-> None, kdoc |-> None]
                 ELSE LET name == _best_name_from_xml(root[1], src_path.stem)
                          slug == SlugOf(name)
                      IN  [out_path |-> Some(slug \o <<".", "k", "m", "l">>),
                           kdoc |-> Some(Kml(name, polygons))]

\* kdoc.save that leaves a file that is already there.
save_keepExisting(files, out_path, kdoc) ==
    [p \in DOMAIN files \cup {out_path} |-> IF p \in DOMAIN files THEN files[p] ELSE kdoc]

\* Line 107, kdoc.save(str(out_path)): the file is created or replaced.
save(files, out_path, kdoc) ==
    [p \in DOMAIN files \cup {out_path} |-> IF p = out_path THEN kdoc ELSE files[p]]

-----------------------------------------------------------------------------
(* Specification Spec: main on an input directory.                          *)

Ring(text) == Element("LinearRing", None, <<coordinates(Some(text))>>)
Outer(text) == Element("outerBoundaryIs", None, <<Ring(text)>>)
Inner(text) == Element("innerBoundaryIs", None, <<Ring(text)>>)
Polygon(children) == Element("Polygon", None, children)
Name(text) == Element("name", Some(text), <<>>)
Kmlroot(children) == Element("kml", None, children)

T12_34_12 == <<"1",",","2"," ","3",",","4"," ","1",",","2">>
NameAreaA == <<"Á", "r", "e", "a", " ", "A">>
NameB1 == <<"B", " ", "1">>

\* A file under IN_DIR: where it is, its name, whether ET.parse accepts it and
\* the tree it then gives.  expect says what the file is: "written" (it has a
\* usable polygon), "malformed", "nopolygon" or "other" (not a .kml file).
File(dir, stem, suffix, wellFormed, root, expect) ==
    [dir |-> dir, stem |-> stem, suffix |-> suffix,
     wellFormed |-> wellFormed, root |-> root, expect |-> expect]

FileAreaA ==
    File("", <<"a", "1">>, "kml", TRUE,
         Kmlroot(<<Element("Document", None,
            <<Element("Placemark", None, <<Name(NameAreaA), Polygon(<<Outer(T12_34_12)>>)>>)>>)>>),
         "written")

FileB1 ==
    File("", <<"b">>, "kml", TRUE,
         Kmlroot(<<Element("Document", None,
            << Name(NameB1),
               Element("Placemark", None,
                  <<Element("MultiGeometry", None,
                      << Polygon(<<Outer(T12_34)>>),
                         Polygon(<<Outer(T56), Inner(T78)>>) >>)>>) >>)>>),
         "written")

FileAb1 ==
    File("", <<"c">>, "kml", TRUE,
         Kmlroot(<<Element("Placemark", None, <<Name(<<"A", "-", "b">>), Polygon(<<Outer(T56)>>)>>)>>),
         "written")

FileAb2 ==
    File("sub", <<"c">>, "kml", TRUE,
         Kmlroot(<<Element("Placemark", None, <<Name(<<" ", "a", " ", "b">>), Polygon(<<Outer(T99)>>)>>)>>),
         "written")

FileStem ==
    File("", <<"Z", ".", "x">>, "kml", TRUE,
         Kmlroot(<<Element("Placemark", None,
            << Polygon(<<Outer(T99)>>), Polygon(<<Outer(<<"x">>)>>),
               Polygon(<<Ring(T56)>>), Polygon(<<Outer(T78), Inner(T56)>>) >>)>>),
         "written")

FileMalformed == File("", <<"m">>, "kml", FALSE, Kmlroot(<<>>), "malformed")

FileNoPolygon ==
    File("", <<"n">>, "kml", TRUE,
         Kmlroot(<<Element("Placemark", None, <<Name(NameQ), Polygon(<<Outer(<<" ">>)>>)>>)>>),
         "nopolygon")

FileNotes == File("", <<"n", "o", "t", "e", "s">>, "txt", TRUE, Kmlroot(<<>>), "other")

FilePool ==
    {FileAreaA, FileB1, FileAb1, FileAb2, FileStem, FileMalformed, FileNoPolygon, FileNotes}

Distinct(s) == \A i, j \in DOMAIN s : i # j => s[i] # s[j]

Init ==
    /\ pc = "main"
    /\ args = <<>> /\ ret = <<>>
    /\ dirState \in {"missing", "file", "dir"}
    /\ entries \in {fs \in SeqsUpTo(FilePool, MaxFiles) : Distinct(fs)}
    /\ dirState # "dir" => entries = <<>>
    /\ found = <<>> /\ idx = 0 /\ ok = 0
    /\ calls = <<>> /\ outcome = <<>> /\ disk = <<>> /\ printed = <<>>

\* Lines 111-112.
CheckInputDir ==
    /\ pc = "main"
    /\ pc' = IF dirState # "dir" THEN "SystemExit" ELSE "glob"
    /\ UNCHANGED <<args, ret, mainVars>>

\* Lines 114-116 without the test of line 115.
Glob_noEmptyCheck ==
    /\ pc = "glob"
    /\ found' = SelectSeq(entries, LAMBDA f : f.suffix = "kml")
    /\ pc' = "loop"
    /\ UNCHANGED <<args, ret, dirState, entries, idx, ok, calls, outcome, disk, printed>>

\* Lines 114-118.
Glob ==
    /\ pc = "glob"
    /\ found' = SelectSeq(entries, LAMBDA f : f.suffix = "kml")
    /\ pc' = IF found' = <<>> THEN "SystemExit" ELSE "loop"
    /\ UNCHANGED <<args, ret, dirState, entries, idx, ok, calls, outcome, disk, printed>>

\* Lines 119-123 with a file that gives nothing ending the run.
LoopBody_exitOnSkip ==
    /\ pc = "loop" /\ idx < Len(found)
    /\ LET p == found[idx + 1]
           r == normalize_kml_file(p)
       IN  /\ calls' = Append(calls, p)
           /\ outcome' = Append(outcome, r.out_path)
           /\ idx' = idx + 1
           /\ IF r.out_path # None
              THEN /\ disk' = save(disk, r.out_path[1], r.kdoc[1])
                   /\ ok' = ok + 1
                   /\ printed' = Append(printed, [line |-> "Gerado", out |-> r.out_path[1]])
                   /\ pc' = pc
              ELSE /\ pc' = "SystemExit"
                   /\ UNCHANGED <<disk, ok, printed>>
    /\ UNCHANGED <<args, ret, dirState, entries, found>>

\* Lines 119-123: one turn of the loop, the call of normalize_kml_file with
\* the save it does included.
LoopBody ==
    /\ pc = "loop" /\ idx < Len(found)
    /\ LET p == found[idx + 1]
           r == normalize_kml_file(p)
       IN  /\ calls' = Append(calls, p)
           /\ outcome' = Append(outcome, r.out_path)
           /\ idx' = idx + 1
           /\ IF r.out_path # None
              THEN /\ disk' = save(disk, r.out_path[1], r.kdoc[1])
                   /\ ok' = ok + 1
                   /\ printed' = Append(printed, [line |-> "Gerado", out |-> r.out_path[1]])
              ELSE UNCHANGED <<disk, ok, printed>>
    /\ UNCHANGED <<pc, args, ret, dirState, entries, found>>

\* Line 125.
Summary ==
    /\ pc = "loop" /\ idx = Len(found)
    /\ printed' = Append(printed, [line |-> "Concluido", ok |-> ok])
    /\ pc' = "done"
    /\ UNCHANGED <<args, ret, dirState, entries, found, idx, ok, calls, outcome, disk>>

Next == CheckInputDir \/ Glob \/ LoopBody \/ Summary

Spec == Init /\ [][Next]_vars

-----------------------------------------------------------------------------
(* Properties of main *)

Written == {i \in 1..idx : outcome[i] # None}

\* The call whose save is the one the path of call i holds at the end.
LastWriter(i) == \A j \in Written : outcome[j] = outcome[i] => j <= i

\* What C2 says of each state: the calls made are the files found so far, in
\* order; each call's result is decided by its own file; only the directory
\* checks end the run; the summary counts the files written.
PerFileOutcomes ==
    pc \in {"main", "glob", "loop", "done", "SystemExit"} =>
        /\ calls = SubSeq(found, 1, idx)
        /\ Len(outcome) = idx
        /\ \A i \in 1..idx : (outcome[i] # None) <=> (found[i].expect = "written")
        /\ pc = "SystemExit" => (idx = 0 /\ (dirState # "dir" \/ found = <<>>))
        /\ pc = "done" =>
             /\ idx = Len(found)
             /\ printed[Len(printed)] =
                  [line |-> "Concluido",
                   ok |-> Cardinality({i \in 1..idx : found[i].expect = "written"})]

\* A turn of the loop, told by what every turn does to the loop's position.
Advance == pc = "loop" /\ idx < Len(found) /\ idx' = idx + 1 /\ pc' = pc

\* main is a sequential program: it takes its next step as long as it has one
\* (the turns of the loop and the summary; the steps before are not needed).
FairSpec == Spec /\ WF_<<pc, idx>>(Advance) /\ WF_vars(Summary)

NoMatchingFile == \A i \in DOMAIN entries : entries[i].suffix # "kml"

\* C3: with the input directory missing, not a directory or without a file
\* matching *.kml, main raises SystemExit, and in every state up to and
\* including that one no file has been written and normalize_kml_file has not
\* been called.
C3_AbortBeforeAnyOutput ==
    (pc \in {"main", "glob", "loop", "done", "SystemExit"}
        /\ (dirState # "dir" \/ NoMatchingFile)) =>
        /\ pc \in {"main", "glob", "SystemExit"}
        /\ dirState # "dir" => pc # "glob"
        /\ pc # "SystemExit" => ENABLED (CheckInputDir \/ Glob)
        /\ calls = <<>> /\ outcome = <<>> /\ DOMAIN disk = {} /\ printed = <<>>

\* A directory that holds only a file that is not a .kml file: the run aborts.
C3_Witness ==
    /\ pc = "SystemExit"
    /\ dirState = "dir" /\ entries = <<FileNotes>>
    /\ calls = <<>>

\* C4: a file that keeps one polygon gives a document of one polygon feature
\* named the display name, with no grouping feature; a file that keeps N > 1
\* polygons gives one grouping feature named the display name with N polygon
\* sub-features, the i-th named "{display name} #{i}" (from 1, in source
\* order) with the i-th polygon's outer and inner rings; every polygon has the
\* shared style.
C4_EmittedShape ==
    pc \in {"loop", "done"} =>
        \A i \in Written : LastWriter(i) =>
            LET polys == _collect_polygons_from_xml(found[i].root)
                name == _best_name_from_xml(found[i].root, found[i].stem)
                doc == disk[outcome[i][1]]
                f == doc.features[1]
            IN  /\ Len(doc.features) = 1
                /\ f.name = name
                /\ Len(polys) = 1 =>
                     /\ f.kind = "Polygon"
                     /\ f.outerboundaryis = polys[1].outer
                     /\ f.innerboundaryis = polys[1].inners
                     /\ f.style = style
                /\ Len(polys) > 1 =>
                     /\ f.kind = "MultiGeometry"
                     /\ Len(f.geometries) = Len(polys)
                     /\ \A k \in DOMAIN polys :
                          /\ f.geometries[k].kind = "Polygon"
                          /\ f.geometries[k].name = name \o <<" ", "#", DigitSeq[k + 1]>>
                          /\ f.geometries[k].outerboundaryis = polys[k].outer
                          /\ f.geometries[k].innerboundaryis = polys[k].inners
                          /\ f.geometries[k].style = style

\* The file of four Polygon elements that keeps three, named by its stem.
C4_Witness ==
    /\ pc = "done"
    /\ found = <<FileStem>>
    /\ DOMAIN disk = {<<"z", "_", "x", ".", "k", "m", "l">>}
    /\ LET f == disk[<<"z", "_", "x", ".", "k", "m", "l">>].features[1]
       IN  /\ f.kind = "MultiGeometry" /\ Len(f.geometries) = 3
           /\ f.geometries[3].name = <<"Z", ".", "x", " ", "#", "3">>
           /\ f.geometries[3].innerboundaryis = << << <<5, 6>> >> >>

\* C5: when files that are all written resolve to the same slug, the path
\* {slug}.kml holds, after the run, the document of the one processed last; the
\* earlier documents are replaced without ending the run, and every such file
\* is counted as written.
C5_LastWriteWins ==
    pc = "done" =>
        /\ ok = Cardinality({i \in 1..Len(found) : found[i].expect = "written"})
        /\ Cardinality(Written) = ok
        /\ DOMAIN disk = {outcome[i][1] : i \in Written}
        /\ \A i \in Written : LastWriter(i) =>
             disk[outcome[i][1]] = normalize_kml_file(found[i]).kdoc[1]

\* Two files named "A-b" and " a b": one output file, holding the second's
\* document, and two files counted.
C5_Witness ==
    /\ pc = "done"
    /\ found = <<FileAb1, FileAb2>>
    /\ ok = 2
    /\ DOMAIN disk = {<<"a", "_", "b", ".", "k", "m", "l">>}
    /\ LET f == disk[<<"a", "_", "b", ".", "k", "m", "l">>].features[1]
       IN  f.name = <<"a", " ", "b">> /\ f.outerboundaryis = << <<9, 9>> >>

\* The document of the end-to-end example: one styled polygon named "Área A"
\* with the outer ring [(1,2),(3,4),(1,2)] and no inner boundary.
AreaADocument ==
    [features |-> << [kind |-> "Polygon", name |-> NameAreaA,
                      outerboundaryis |-> << <<1, 2>>, <<3, 4>>, <<1, 2>> >>,
                      innerboundaryis |-> <<>>, style |-> style] >>]

\* What the end-to-end example says with the output file named fileName.
AreaAExample(fileName) ==
    /\ \A i \in 1..idx : found[i] = FileAreaA => outcome[i] = Some(fileName)
    /\ (pc = "done" /\ found = <<FileAreaA>>) =>
          (DOMAIN disk = {fileName} /\ disk[fileName] = AreaADocument)

\* C9 as stated: the file of the example is written as area_a.kml.
C9_AreaAFileName ==
    pc \in {"loop", "done"} => AreaAExample(<<"a", "r", "e", "a", "_", "a", ".", "k", "m", "l">>)

\* C9 as amended: the file of the example (one Polygon of outer ring
\* [(1,2),(3,4),(1,2)], no inner ring, placemark name "Área A") gives exactly
\* one output file, named rea_a.kml (the non-ASCII letter is replaced by an
\* underscore, which is then stripped), holding one styled polygon named
\* "Área A" with that outer ring and no inner boundary.
C9_AreaAReplaced ==
    pc \in {"loop", "done"} => AreaAExample(<<"r", "e", "a", "_", "a", ".", "k", "m", "l">>)

C9_Witness ==
    /\ pc = "done"
    /\ found = <<FileAreaA>>
    /\ ok = 1
    /\ disk = [p \in {<<"r", "e", "a", "_", "a", ".", "k", "m", "l">>} |-> AreaADocument]

=============================================================================
